---- MODULE Spec2Model ----
(***************************************************************************)
(* Model of the YC Companies Query API (src/api.py): the /query pipeline   *)
(* (vn.ask -> run_sql_from_local_db -> identifier extraction), the /train  *)
(* rebuild of the training corpus, and the SQLite store both work on.      *)
(*                                                                         *)
(* Both handlers are "async def" coroutines without a single await, so the *)
(* event loop runs one handler from its first statement to its return (or  *)
(* raise) before it starts another; the steps of a handler are separate    *)
(* actions so that intermediate states (open connection, half-built        *)
(* corpus) are visible.                                                    *)
(***************************************************************************)
EXTENDS Integers, Sequences, FiniteSets, Bags, TLC

\* ---------------------------------------------------------------- bounds
NumReq == 2        \* request slots the server holds at once
MaxRows == 3       \* rows of a result table
MaxId == 2         \* distinct cell values 1..MaxId

Req == 1..NumReq
Ids == 1..MaxId
NoReq == 0

\* ---------------------------------------------------------------- values
NULL == "<None>"                     \* Python None in a str-typed position
Questions == {"San Francisco"}

\* ------------------------------------------------------- the SQLite store
\* Names are character sequences, so that LIKE is computed and not assumed.
n_companies == <<"c","o","m","p","a","n","i","e","s">>
n_founders == <<"f","o","u","n","d","e","r","s">>
n_sqlite_sequence == <<"s","q","l","i","t","e","_","s","e","q","u","e","n","c","e">>
n_sqlitestats == <<"s","q","l","i","t","e","s","t","a","t","s">>
n_autoindex == <<"s","q","l","i","t","e","_","a","u","t","o","i","n","d","e","x">>

\* One row of sqlite_master: (type, name, sql).  sql is the literal CREATE
\* statement, identified here by the name it creates; automatic indexes
\* have sql NULL.
Element(type, name, hasSql) == [type |-> type, name |-> name,
                                sql |-> IF hasSql THEN <<"CREATE", type, name>> ELSE <<>>]

\* sqlite_master in creation (rowid) order, when every element exists.
MasterUniverse == << Element("table", n_companies, TRUE),
                     Element("table", n_founders, TRUE),
                     Element("index", n_autoindex, FALSE),
                     Element("table", n_sqlite_sequence, TRUE),
                     Element("table", n_sqlitestats, TRUE) >>

\* The database files the service may be started on: a file with no element,
\* one holding only engine-internal elements, the project's tables, and the
\* project's tables next to a user table whose name begins with "sqlite".
Databases == { <<>>,
               SubSeq(MasterUniverse, 3, 4),
               SubSeq(MasterUniverse, 1, 4),
               MasterUniverse }

RECURSIVE SelectSeq2(_, _)
\* the rows of s whose name is not n, order kept
SelectSeq2(s, n) ==
    IF s = <<>> THEN <<>>
    ELSE IF Head(s).name = n THEN SelectSeq2(Tail(s), n)
         ELSE <<Head(s)>> \o SelectSeq2(Tail(s), n)

Range(s) == { s[i] : i \in 1..Len(s) }

\* SQLite's LIKE: % matches any run of characters, _ matches exactly one.
RECURSIVE Like(_, _)
Like(s, p) ==
    IF p = <<>> THEN s = <<>>
    ELSE IF Head(p) = "%"
         THEN Like(s, Tail(p)) \/ (s # <<>> /\ Like(Tail(s), p))
         ELSE /\ s # <<>>
              /\ (Head(p) = "_" \/ Head(p) = Head(s))
              /\ Like(Tail(s), Tail(p))

\* the pattern of the schema query, 'sqlite_%'
SchemaPattern == <<"s","q","l","i","t","e","_","%">>

RECURSIVE SchemaRows(_)
\* SELECT type, name, sql FROM sqlite_master
\*   WHERE sql IS NOT NULL AND name NOT LIKE 'sqlite_%'
SchemaRows(master) ==
    IF master = <<>> THEN <<>>
    ELSE IF Head(master).sql # <<>> /\ ~Like(Head(master).name, SchemaPattern)
         THEN <<Head(master)>> \o SchemaRows(Tail(master))
         ELSE SchemaRows(Tail(master))

\* ---------------------------------------------------------- result tables
ColumnSets == { {"id"}, {"company_id"}, {"id", "company_id"}, {"name"} }

\* the values a cell of a column takes: company ids in id, the ids of two
\* companies in company_id, a text in name
Cells(col) ==
    IF col = "id" THEN Ids
    ELSE IF col = "company_id" THEN {1, 2}
    ELSE {"Acme"}

RowsOfShape(cols) ==
    { f \in [cols -> UNION { Cells(c) : c \in cols }] : \A c \in cols : f[c] \in Cells(c) }
RowsOver(cols) == UNION { [1..n -> RowsOfShape(cols)] : n \in 0..MaxRows }
Tables == UNION { { [none |-> FALSE, cols |-> c, rows |-> r] : r \in RowsOver(c) }
                  : c \in ColumnSets }
NoTable == [none |-> TRUE, cols |-> {}, rows |-> <<>>]

EmptyNever(df) == df.cols = {}

\* df.empty
Empty(df) == df.rows = <<>> \/ df.cols = {}

\* df[col] as a list
Column(df, col) == [i \in 1..Len(df.rows) |-> df.rows[i][col]]

RECURSIVE UniqueFrom(_, _)
UniqueFrom(s, seen) ==
    IF s = <<>> THEN <<>>
    ELSE IF Head(s) \in seen THEN UniqueFrom(Tail(s), seen)
         ELSE <<Head(s)>> \o UniqueFrom(Tail(s), seen \cup {Head(s)})

RECURSIVE UniqueKeepLast(_)
UniqueKeepLast(s) ==
    IF s = <<>> THEN <<>>
    ELSE IF Head(s) \in Range(Tail(s)) THEN UniqueKeepLast(Tail(s))
         ELSE <<Head(s)>> \o UniqueKeepLast(Tail(s))

\* Series.unique(): the distinct values in order of first appearance
Unique(s) == UniqueFrom(s, {})

\* next((col for col in ['id', 'company_id'] if col in df.columns), 'id')
IdCol(df) ==
    IF "id" \in df.cols THEN "id"
    ELSE IF "company_id" \in df.cols THEN "company_id"
    ELSE "id"

\* ---------------------------------------------------------- SQL statements
SchemaQuery == "SELECT type, name, sql FROM sqlite_master"
SelectSql == "SELECT id FROM companies"
BadSql == "SELEC id FROM"
DeleteSql == "DELETE FROM companies"
DropSql == "DROP TABLE founders"
Translations == {SelectSql, BadSql, DeleteSql, DropSql}

\* ---------------------------------------------------------------- corpus
DdlItem(sqltext) == [kind |-> "ddl", question |-> NULL, content |-> sqltext]
DocItem == [kind |-> "documentation", question |-> NULL, content |-> <<"relationships">>]

\* A join of two tables: the tables and the two columns its condition equates
\* (no column when no condition is given).
Join(a, acol, b, bcol) == [tables |-> {a, b}, on |-> {<<a, acol>>, <<b, bcol>>}]
Related(a, b) == [tables |-> {a, b}, on |-> {}]

\* the relationships the documentation text states (lines 97-102)
DocJoins ==
    { Join("companies", "id", "company_founders", "company_id"),
      Join("company_founders", "founder_id", "founders", "profileId"),
      Join("founders", "profileId", "founder_experience", "founder_id"),
      Join("founders", "profileId", "founder_education", "founder_id"),
      Join("founders", "profileId", "founder_skills", "founder_id"),
      Related("companies", "company_industries"),
      Related("companies", "company_tags") }

\* the JOIN ... ON clauses of the example statements
J_industries == Join("companies", "id", "company_industries", "company_id")
J_founders == Join("companies", "id", "company_founders", "company_id")
J_education == Join("company_founders", "founder_id", "founder_education", "founder_id")
J_experience == Join("company_founders", "founder_id", "founder_experience", "founder_id")
J_skills == Join("company_founders", "founder_id", "founder_skills", "founder_id")

\* example_queries: the question and the joins of the sql of each pair
example_queries ==
    << [question |-> "San Francisco", joins |-> {}],
       [question |-> "fintech companies", joins |-> {J_industries}],
       [question |-> "AI", joins |-> {J_industries}],
       [question |-> "companies with more than 50 employees", joins |-> {}],
       [question |-> "MIT", joins |-> {J_founders, J_education}],
       [question |-> "Berkeley founders", joins |-> {J_founders, J_education}],
       [question |-> "ex-Google founders", joins |-> {J_founders, J_experience}],
       [question |-> "founders who worked at FAANG", joins |-> {J_founders, J_experience}],
       [question |-> "founders with Python skills", joins |-> {J_founders, J_skills}],
       [question |-> "AI companies with founders from Stanford",
        joins |-> {J_industries, J_founders, J_education}],
       [question |-> "B2B companies where a founder was an engineer at a FAANG company",
        joins |-> {J_industries, J_founders, J_experience}] >>

ExampleItem(i) == [kind |-> "sql", question |-> example_queries[i].question,
                   content |-> <<"example", i>>]
NumExamples == 11

\* the pair vn.ask stores with add_question_sql(question=question, sql=sql)
AskedItem(q, s) == [kind |-> "sql", question |-> q, content |-> <<"asked", q, s>>]

\* len(vn.get_training_data()), the training_items of /training-status
TrainingItems(c) == BagCardinality(c)

\* vn.train: the item is stored under an id derived from its content, and
\* adding an id that is already present stores nothing new.
Upsert(c, item) == IF BagIn(item, c) THEN c ELSE c (+) SetToBag({item})

VARIABLES dbExists, master, corpus, conns, running, pc, handler, question,
          sql, df, xres, exc, todo, response,
          trained     \* the items a running rebuild has passed to vn.train so far

vars == <<dbExists, master, corpus, conns, running, pc, handler, question,
          sql, df, xres, exc, todo, response, trained>>

NoResponse == [kind |-> "none", sql |-> NULL, company_ids |-> <<>>,
               error |-> NULL, status |-> NULL, raised |-> NULL]

Init ==
    /\ dbExists \in BOOLEAN
    /\ master \in Databases
    /\ (~dbExists => master = <<>>)
    /\ corpus = EmptyBag
    /\ conns = {}
    /\ running = NoReq
    /\ pc = [r \in Req |-> "idle"]
    /\ handler = [r \in Req |-> "none"]
    /\ question = [r \in Req |-> NULL]
    /\ sql = [r \in Req |-> NULL]
    /\ df = [r \in Req |-> NoTable]
    /\ xres = [r \in Req |-> NULL]
    /\ exc = [r \in Req |-> NULL]
    /\ todo = [r \in Req |-> <<>>]
    /\ response = NoResponse
    /\ trained = [r \in Req |-> <<>>]

\* ------------------------------------------------------------ the server
LoopShared == TRUE

\* The event loop runs a handler only when no other handler is running:
\* neither handler body contains an await, so it never yields the loop.
LoopFree == running = NoReq

\* a handler ends (return or raise): its frame is dropped, the loop is free
Finish(r, resp) ==
    /\ response' = resp
    /\ running' = NoReq
    /\ pc' = [pc EXCEPT ![r] = "idle"]
    /\ handler' = [handler EXCEPT ![r] = "none"]
    /\ question' = [question EXCEPT ![r] = NULL]
    /\ sql' = [sql EXCEPT ![r] = NULL]
    /\ df' = [df EXCEPT ![r] = NoTable]
    /\ xres' = [xres EXCEPT ![r] = NULL]
    /\ exc' = [exc EXCEPT ![r] = NULL]
    /\ todo' = [todo EXCEPT ![r] = <<>>]
    /\ trained' = [trained EXCEPT ![r] = <<>>]

\* POST /query {question} is received
ArriveQuery(r, q) ==
    /\ pc[r] = "idle"
    /\ pc' = [pc EXCEPT ![r] = "pending"]
    /\ handler' = [handler EXCEPT ![r] = "query"]
    /\ question' = [question EXCEPT ![r] = q]
    /\ UNCHANGED <<dbExists, master, corpus, conns, running, sql, df, xres, exc,
                   todo, response, trained>>

\* POST /train is received
ArriveTrain(r) ==
    /\ pc[r] = "idle"
    /\ pc' = [pc EXCEPT ![r] = "pending"]
    /\ handler' = [handler EXCEPT ![r] = "train"]
    /\ UNCHANGED <<dbExists, master, corpus, conns, running, question, sql, df,
                   xres, exc, todo, response, trained>>

\* the event loop starts the handler of a received request
Dispatch(r) ==
    /\ pc[r] = "pending"
    /\ LoopFree
    /\ running' = r
    /\ IF handler[r] = "query"
       THEN /\ pc' = [pc EXCEPT ![r] = "q_ask"]
            /\ sql' = sql
       ELSE \* train_model: df_ddl = vn.run_sql("SELECT ... FROM sqlite_master ...")
            /\ pc' = [pc EXCEPT ![r] = "x_check"]
            /\ sql' = [sql EXCEPT ![r] = SchemaQuery]
    /\ response' = NoResponse
    /\ UNCHANGED <<dbExists, master, corpus, conns, handler, question, df, xres,
                   exc, todo, trained>>

\* where an exception raised inside run_sql lands in the caller
Handler(r) == IF handler[r] = "query" THEN "q_except" ELSE "t_raise"

\* -------------------------------------------------- run_sql_from_local_db
\* if not os.path.exists(DB_PATH): raise FileNotFoundError
RunSqlMissing(r) ==
    /\ running = r /\ pc[r] = "x_check"
    /\ ~dbExists
    /\ exc' = [exc EXCEPT ![r] = "FileNotFoundError"]
    /\ pc' = [pc EXCEPT ![r] = Handler(r)]
    /\ UNCHANGED <<dbExists, master, corpus, conns, running, handler, question,
                   sql, df, xres, todo, response, trained>>

\* conn = sqlite3.connect(DB_PATH)
RunSqlConnect(r) ==
    /\ running = r /\ pc[r] = "x_check"
    /\ dbExists
    /\ conns' = conns \cup {r}
    /\ pc' = [pc EXCEPT ![r] = "x_read"]
    /\ UNCHANGED <<dbExists, master, corpus, running, handler, question, sql, df,
                   xres, exc, todo, response, trained>>

\* df = pd.read_sql_query(sql, conn): the schema query
RunSqlReadSchema(r) ==
    /\ running = r /\ pc[r] = "x_read"
    /\ sql[r] = SchemaQuery
    /\ LET rows == SchemaRows(master)
       IN todo' = [todo EXCEPT ![r] = [i \in 1..Len(rows) |-> rows[i].sql]]
    /\ xres' = [xres EXCEPT ![r] = NULL]
    /\ pc' = [pc EXCEPT ![r] = "x_close"]
    /\ UNCHANGED <<dbExists, master, corpus, conns, running, handler, question,
                   sql, df, exc, response, trained>>

\* df = pd.read_sql_query(sql, conn): a SELECT returns some table
RunSqlReadSelect(r) ==
    /\ running = r /\ pc[r] = "x_read"
    /\ sql[r] = SelectSql
    /\ \E t \in Tables : df' = [df EXCEPT ![r] = t]
    /\ xres' = [xres EXCEPT ![r] = NULL]
    /\ pc' = [pc EXCEPT ![r] = "x_close"]
    /\ UNCHANGED <<dbExists, master, corpus, conns, running, handler, question,
                   sql, exc, todo, response, trained>>

\* df = pd.read_sql_query(sql, conn): SQLite rejects the statement (syntax
\* error, no such table or column)
RunSqlReadError(r) ==
    /\ running = r /\ pc[r] = "x_read"
    /\ sql[r] \in {SelectSql, BadSql}
    /\ xres' = [xres EXCEPT ![r] = "DatabaseError"]
    /\ pc' = [pc EXCEPT ![r] = "x_close"]
    /\ UNCHANGED <<dbExists, master, corpus, conns, running, handler, question,
                   sql, df, exc, todo, response, trained>>

\* What a statement that is not a read does to sqlite_master when the
\* connection executes it.  DDL runs outside any transaction and is durable
\* at once; DML opens an implicit transaction that is never committed and is
\* discarded when the connection closes.
Executed(m, s) ==
    IF s = DropSql THEN SelectSeq2(m, n_founders) ELSE m

\* df = pd.read_sql_query(sql, conn): the statement is a write.  It is passed
\* to the connection like any other; having no result set, reading its rows
\* then fails.
RunSqlReadWrite(r) ==
    /\ running = r /\ pc[r] = "x_read"
    /\ sql[r] \in {DeleteSql, DropSql}
    /\ IF sql[r] = DropSql /\ n_founders \notin { e.name : e \in Range(master) }
       THEN /\ master' = master
            /\ xres' = [xres EXCEPT ![r] = "DatabaseError"]
       ELSE /\ master' = Executed(master, sql[r])
            /\ xres' = [xres EXCEPT ![r] = "TypeError"]
    /\ pc' = [pc EXCEPT ![r] = "x_close"]
    /\ UNCHANGED <<dbExists, corpus, conns, running, handler, question, sql, df,
                   exc, todo, response, trained>>

CloseConnOnSuccess(c, r, res) == IF res = NULL THEN c \ {r} ELSE c

\* finally: conn.close()
CloseConn(c, r, res) == c \ {r}

\* the finally block, then "return df" or the pending exception goes on
RunSqlClose(r) ==
    /\ running = r /\ pc[r] = "x_close"
    /\ conns' = CloseConn(conns, r, xres[r])
    /\ IF xres[r] = NULL
       THEN /\ pc' = [pc EXCEPT ![r] = IF handler[r] = "query" THEN "q_auto" ELSE "t_ddl"]
            /\ exc' = exc
       ELSE /\ pc' = [pc EXCEPT ![r] = Handler(r)]
            /\ exc' = [exc EXCEPT ![r] = xres[r]]
    /\ xres' = [xres EXCEPT ![r] = NULL]
    /\ UNCHANGED <<dbExists, master, corpus, running, handler, question, sql, df,
                   todo, response, trained>>

\* ----------------------------------------------------------------- /query
\* vn.ask: the translator produces a statement and hands it to vn.run_sql
AskTranslate(r, s) ==
    /\ running = r /\ pc[r] = "q_ask"
    /\ sql' = [sql EXCEPT ![r] = s]
    /\ pc' = [pc EXCEPT ![r] = "x_check"]
    /\ UNCHANGED <<dbExists, master, corpus, conns, running, handler, question,
                   df, xres, exc, todo, response, trained>>

\* vn.ask, after run_sql returned df: it is called with auto_train left at
\* its default (True), so a statement that returned at least one row is
\* stored with its question as a training pair; then ask returns (sql, df, _)
AskAutoTrain(r) ==
    /\ running = r /\ pc[r] = "q_auto"
    /\ corpus' = IF Len(df[r].rows) > 0
                 THEN Upsert(corpus, AskedItem(question[r], sql[r]))
                 ELSE corpus
    /\ pc' = [pc EXCEPT ![r] = "q_norm"]
    /\ UNCHANGED <<dbExists, master, conns, running, handler, question, sql, df,
                   xres, exc, todo, response, trained>>

\* vn.ask raises (the language model or the retrieval fails)
AskFails(r) ==
    /\ running = r /\ pc[r] = "q_ask"
    /\ exc' = [exc EXCEPT ![r] = "TranslationError"]
    /\ pc' = [pc EXCEPT ![r] = "q_except"]
    /\ UNCHANGED <<dbExists, master, corpus, conns, running, handler, question,
                   sql, df, xres, todo, response, trained>>

\* vn.ask returns a statement and no table (df is None)
AskNoTable(r, s) ==
    /\ running = r /\ pc[r] = "q_ask"
    /\ sql' = [sql EXCEPT ![r] = s]
    /\ df' = [df EXCEPT ![r] = NoTable]
    /\ pc' = [pc EXCEPT ![r] = "q_norm"]
    /\ UNCHANGED <<dbExists, master, corpus, conns, running, handler, question,
                   xres, exc, todo, response, trained>>

\* df[id_col] raises KeyError when the column is not in the table
HasColumn(t, col) == col \in t.cols

\* company_ids of lines 72-75, for a table on which they do not raise
CompanyIds(t) ==
    IF ~t.none /\ ~Empty(t) THEN Unique(Column(t, IdCol(t))) ELSE <<>>

QueryResponse(r, s, ids, e) ==
    [kind |-> "query", sql |-> s, company_ids |-> ids, error |-> e,
     status |-> NULL, raised |-> NULL]

\* lines 72-76: company_ids, then return {"sql", "company_ids", "error": None}
QueryReturn(r) ==
    /\ running = r /\ pc[r] = "q_norm"
    /\ (df[r].none \/ Empty(df[r]) \/ HasColumn(df[r], IdCol(df[r])))
    /\ Finish(r, QueryResponse(r, sql[r], CompanyIds(df[r]), NULL))
    /\ UNCHANGED <<dbExists, master, corpus, conns>>

\* line 75 raises KeyError inside the try block
QueryKeyError(r) ==
    /\ running = r /\ pc[r] = "q_norm"
    /\ ~ (df[r].none \/ Empty(df[r]) \/ HasColumn(df[r], IdCol(df[r])))
    /\ exc' = [exc EXCEPT ![r] = "KeyError"]
    /\ pc' = [pc EXCEPT ![r] = "q_except"]
    /\ UNCHANGED <<dbExists, master, corpus, conns, running, handler, question,
                   sql, df, xres, todo, response, trained>>

ErrorResponseKeepsSql(r, e) == QueryResponse(r, sql[r], <<>>, e)

\* except Exception as e: return {"sql": "", "company_ids": [], "error": str(e)}
ErrorResponse(r, e) == QueryResponse(r, "", <<>>, e)

QueryExcept(r) ==
    /\ running = r /\ pc[r] = "q_except"
    /\ Finish(r, ErrorResponse(r, exc[r]))
    /\ UNCHANGED <<dbExists, master, corpus, conns>>

\* ----------------------------------------------------------------- /train
TrainResponse(r, st, e) ==
    [kind |-> "train", sql |-> NULL, company_ids |-> <<>>, error |-> NULL,
     status |-> st, raised |-> e]

\* for ddl in df_ddl['sql'].to_list(): vn.train(ddl=ddl)
TrainDdl(r) ==
    /\ running = r /\ pc[r] = "t_ddl"
    /\ todo[r] # <<>>
    /\ corpus' = Upsert(corpus, DdlItem(Head(todo[r])))
    /\ todo' = [todo EXCEPT ![r] = Tail(todo[r])]
    /\ trained' = [trained EXCEPT ![r] = Append(trained[r], DdlItem(Head(todo[r])))]
    /\ UNCHANGED <<dbExists, master, conns, running, pc, handler, question, sql,
                   df, xres, exc, response>>

DdlSkipped(r) == TRUE

\* the for loop over df_ddl['sql'].to_list() has gone through the whole list
DdlDone(r) == todo[r] = <<>>

\* vn.train(documentation=...)
TrainDoc(r) ==
    /\ running = r /\ pc[r] = "t_ddl"
    /\ DdlDone(r)
    /\ corpus' = Upsert(corpus, DocItem)
    /\ todo' = [todo EXCEPT ![r] = [i \in 1..NumExamples |-> i]]
    /\ pc' = [pc EXCEPT ![r] = "t_ex"]
    /\ trained' = [trained EXCEPT ![r] = Append(trained[r], DocItem)]
    /\ UNCHANGED <<dbExists, master, conns, running, handler, question, sql, df,
                   xres, exc, response>>

\* for example in example_queries: vn.train(question=..., sql=...)
TrainExample(r) ==
    /\ running = r /\ pc[r] = "t_ex"
    /\ todo[r] # <<>>
    /\ corpus' = Upsert(corpus, ExampleItem(Head(todo[r])))
    /\ todo' = [todo EXCEPT ![r] = Tail(todo[r])]
    /\ trained' = [trained EXCEPT ![r] = Append(trained[r], ExampleItem(Head(todo[r])))]
    /\ UNCHANGED <<dbExists, master, conns, running, pc, handler, question, sql,
                   df, xres, exc, response>>

\* a vn.train call raises (the embedding or the corpus store fails)
TrainUpsertFails(r) ==
    /\ running = r
    /\ \/ pc[r] = "t_ddl"
       \/ pc[r] = "t_ex" /\ todo[r] # <<>>
    /\ exc' = [exc EXCEPT ![r] = "TrainError"]
    /\ pc' = [pc EXCEPT ![r] = "t_raise"]
    /\ UNCHANGED <<dbExists, master, corpus, conns, running, handler, question,
                   sql, df, xres, todo, response, trained>>

\* return {"status": "success", "message": ...}
TrainReturn(r) ==
    /\ running = r /\ pc[r] = "t_ex"
    /\ todo[r] = <<>>
    /\ Finish(r, TrainResponse(r, "success", NULL))
    /\ UNCHANGED <<dbExists, master, corpus, conns>>

\* no try block in train_model: the exception leaves the handler
TrainRaise(r) ==
    /\ running = r /\ pc[r] = "t_raise"
    /\ Finish(r, TrainResponse(r, NULL, exc[r]))
    /\ UNCHANGED <<dbExists, master, corpus, conns>>

Next ==
    \/ \E r \in Req, q \in Questions : ArriveQuery(r, q)
    \/ \E r \in Req : ArriveTrain(r)
    \/ \E r \in Req : Dispatch(r)
    \/ \E r \in Req : RunSqlMissing(r)
    \/ \E r \in Req : RunSqlConnect(r)
    \/ \E r \in Req : RunSqlReadSchema(r)
    \/ \E r \in Req : RunSqlReadSelect(r)
    \/ \E r \in Req : RunSqlReadError(r)
    \/ \E r \in Req : RunSqlReadWrite(r)
    \/ \E r \in Req : RunSqlClose(r)
    \/ \E r \in Req, s \in Translations : AskTranslate(r, s)
    \/ \E r \in Req : AskAutoTrain(r)
    \/ \E r \in Req : AskFails(r)
    \/ \E r \in Req, s \in Translations : AskNoTable(r, s)
    \/ \E r \in Req : QueryReturn(r)
    \/ \E r \in Req : QueryKeyError(r)
    \/ \E r \in Req : QueryExcept(r)
    \/ \E r \in Req : TrainDdl(r)
    \/ \E r \in Req : TrainDoc(r)
    \/ \E r \in Req : TrainExample(r)
    \/ \E r \in Req : TrainUpsertFails(r)
    \/ \E r \in Req : TrainReturn(r)
    \/ \E r \in Req : TrainRaise(r)

Spec == Init /\ [][Next]_vars

\* the service when only /query requests arrive
NextQuery ==
    \/ \E r \in Req, q \in Questions : ArriveQuery(r, q)
    \/ \E r \in Req : Dispatch(r)
    \/ \E r \in Req : RunSqlMissing(r)
    \/ \E r \in Req : RunSqlConnect(r)
    \/ \E r \in Req : RunSqlReadSelect(r)
    \/ \E r \in Req : RunSqlReadError(r)
    \/ \E r \in Req : RunSqlReadWrite(r)
    \/ \E r \in Req : RunSqlClose(r)
    \/ \E r \in Req, s \in Translations : AskTranslate(r, s)
    \/ \E r \in Req : AskAutoTrain(r)
    \/ \E r \in Req : AskFails(r)
    \/ \E r \in Req, s \in Translations : AskNoTable(r, s)
    \/ \E r \in Req : QueryReturn(r)
    \/ \E r \in Req : QueryKeyError(r)
    \/ \E r \in Req : QueryExcept(r)

SpecQuery == Init /\ [][NextQuery]_vars

\* the service when only /train requests arrive
NextTrain ==
    \/ \E r \in Req : ArriveTrain(r)
    \/ \E r \in Req : Dispatch(r)
    \/ \E r \in Req : RunSqlMissing(r)
    \/ \E r \in Req : RunSqlConnect(r)
    \/ \E r \in Req : RunSqlReadSchema(r)
    \/ \E r \in Req : RunSqlClose(r)
    \/ \E r \in Req : TrainDdl(r)
    \/ \E r \in Req : TrainDoc(r)
    \/ \E r \in Req : TrainExample(r)
    \/ \E r \in Req : TrainUpsertFails(r)
    \/ \E r \in Req : TrainReturn(r)
    \/ \E r \in Req : TrainRaise(r)

SpecTrain == Init /\ [][NextTrain]_vars

\* ------------------------------------------------------------ properties
QueryFinishes(r) ==
    handler[r] = "query" /\ pc[r] \in {"q_norm", "q_except"} /\ pc'[r] = "idle"

Chosen(t) == IF "id" \in t.cols THEN "id" ELSE "company_id"

FirstIndex(s, v) == CHOOSE i \in 1..Len(s) : s[i] = v /\ \A j \in 1..(i-1) : s[j] # v

\* C2: for a non-empty table that has the chosen identifier column,
\* company_ids has no duplicate, holds exactly the values of that column and
\* lists them in the order of their first occurrence in the table's rows.
C2_DedupFirstOccurrence ==
    [][\A r \in Req :
         (/\ pc[r] = "q_norm" /\ pc'[r] # "q_norm"
          /\ ~df[r].none /\ df[r].rows # <<>>
          /\ Chosen(df[r]) \in df[r].cols) =>
            LET col == [i \in 1..Len(df[r].rows) |-> df[r].rows[i][Chosen(df[r])]]
                ids == response'.company_ids
            IN /\ pc'[r] = "idle" /\ response'.error = NULL
               /\ \A i, j \in 1..Len(ids) : ids[i] = ids[j] => i = j
               /\ Range(ids) = Range(col)
               /\ \A i, j \in 1..Len(ids) :
                      i < j => FirstIndex(col, ids[i]) < FirstIndex(col, ids[j])
      ]_vars

C2_Witness ==
    /\ response.kind = "query"
    /\ response.error = NULL
    /\ response.company_ids = <<2, 1>>

\* C3: the identifier column is id if present, else company_id; a non-empty
\* table with neither column does not make the request fail: the translated
\* sql is returned and error stays null.
C3_ShapeMismatchNotFatal ==
    [][\A r \in Req :
         (/\ pc[r] = "q_norm" /\ pc'[r] # "q_norm"
          /\ ~df[r].none /\ df[r].rows # <<>>) =>
            IF Chosen(df[r]) \in df[r].cols
            THEN response'.company_ids = Unique(Column(df[r], Chosen(df[r])))
            ELSE /\ pc'[r] = "idle"
                 /\ response'.error = NULL
                 /\ response'.sql = sql[r]
      ]_vars

\* C4: when vn.ask returns and the table is empty or absent, the response is
\* company_ids = [], error = null and sql = the translated statement.
C4_EmptyIsNotAnError ==
    [][\A r \in Req :
         (/\ pc[r] = "q_norm" /\ pc'[r] # "q_norm"
          /\ (df[r].none \/ df[r].rows = <<>>)) =>
            /\ pc'[r] = "idle"
            /\ response' = [kind |-> "query", sql |-> sql[r], company_ids |-> <<>>,
                            error |-> NULL, status |-> NULL, raised |-> NULL]
      ]_vars

C4_Witness ==
    /\ response.kind = "query"
    /\ response.error = NULL
    /\ response.company_ids = <<>>
    /\ response.sql = SelectSql

InExecutor(r) == running = r /\ pc[r] \in {"x_check", "x_read", "x_close"}

\* C5: a connection is open only inside the executor call that opened it:
\* it belongs to the one call in progress and is closed when that call has
\* returned or raised, so no connection is open between calls.
C5_ConnectionClosed ==
    /\ \A r \in conns : InExecutor(r) /\ pc[r] # "x_check"
    /\ \A r \in Req : ~InExecutor(r) => r \notin conns
    /\ running = NoReq => conns = {}

C5_Witness ==
    \E r \in Req :
        /\ pc[r] = "q_except"
        /\ exc[r] \in {"DatabaseError", "TypeError"}
        /\ conns = {}

InFlight(r) == handler[r] = "train" /\ pc[r] \notin {"idle", "pending"}

\* C6: two rebuilds are never in flight together: while one /train handler
\* has started and not finished, no other has started.
C6_RebuildSerialized ==
    \A r1, r2 \in Req : (r1 # r2 /\ InFlight(r1)) => ~InFlight(r2)

C6_Witness ==
    \E r1, r2 \in Req :
        /\ r1 # r2
        /\ InFlight(r1) /\ pc[r1] = "t_ex"
        /\ handler[r2] = "train" /\ pc[r2] = "pending"

\* C7: a statement that is not a read is rejected with WriteRejected without
\* being run, and the store is the same after every step of a /query.
C7_ReadOnly ==
    [][/\ \A r \in Req :
            (pc[r] = "x_read" /\ pc'[r] = "x_close" /\ sql[r] \in {DeleteSql, DropSql})
                => xres'[r] = "WriteRejected"
       /\ master' = master
      ]_vars

\* C8: /train always answers {status, message} with status success or error;
\* no exception leaves the handler.
C8_TrainAnswersStatus ==
    response.kind = "train" =>
        (response.status \in {"success", "error"} /\ response.raised = NULL)

\* the engine prefix of internal elements
InternalPrefix == <<"s","q","l","i","t","e","_">>
IsInternal(name) ==
    Len(name) >= Len(InternalPrefix) /\ SubSeq(name, 1, Len(InternalPrefix)) = InternalPrefix

\* the schema facts of the corpus that define the element called name
FactsFor(name) ==
    { i \in BagToSet(corpus) : i.kind = "ddl" /\ i.content[3] = name }

RECURSIVE Total(_, _)
Total(S, c) ==
    IF S = {} THEN 0
    ELSE LET x == CHOOSE y \in S : TRUE IN CopiesIn(x, c) + Total(S \ {x}, c)

C10_EmptySchemaFails ==
    (response.kind = "train" /\ response.status = "success") =>
        /\ dbExists
        /\ \E i \in 1..Len(master) :
               master[i].type = "table" /\ ~IsInternal(master[i].name)

\* C11: handling a /query request leaves the corpus as it was: no step of a
\* /query handler changes the set of corpus items or the count that
\* /training-status reports.
C11_QueryLeavesCorpus ==
    [][\A r \in Req :
         (running = r /\ handler[r] = "query") =>
             /\ BagToSet(corpus') = BagToSet(corpus)
             /\ TrainingItems(corpus') = TrainingItems(corpus)
      ]_vars

Rank(k) == IF k = "ddl" THEN 1 ELSE IF k = "documentation" THEN 2 ELSE 3

\* C13: a rebuild trains schema facts, then documentation, then examples:
\* whatever it has trained so far is in that order, the documentation comes
\* only after every statement the schema query returned, an example only
\* after the documentation; and a rebuild whose schema extraction fails has
\* trained nothing and has left the corpus as it was.
C13_RebuildOrder ==
    [][\A r \in Req :
         LET t == trained'[r]
         IN /\ \A i, j \in 1..Len(t) : i < j => Rank(t[i].kind) <= Rank(t[j].kind)
            /\ (\E i \in 1..Len(t) : t[i].kind = "documentation") =>
                   { t[i].content : i \in { j \in 1..Len(t) : t[j].kind = "ddl" } }
                       = { e.sql : e \in Range(SchemaRows(master')) }
            /\ (\E i \in 1..Len(t) : t[i].kind = "sql") =>
                   (\E i \in 1..Len(t) : t[i].kind = "documentation")
            /\ (handler[r] = "train" /\ pc[r] \in {"x_check", "x_read", "x_close"}
                   /\ pc'[r] = "t_raise") =>
                   (t = <<>> /\ corpus' = corpus)
            /\ (handler[r] = "train" /\ pc[r] = "t_raise" /\ trained[r] = <<>>) =>
                   corpus' = corpus
            /\ (running = r /\ handler[r] = "train" /\ corpus' # corpus) =>
                   Len(t) = Len(trained[r]) + 1
      ]_vars

C13_Witness ==
    \E r \in Req :
        /\ handler[r] = "train" /\ pc[r] = "t_ex"
        /\ Len(trained[r]) > 3
        /\ trained[r][1].kind = "ddl"
        /\ trained[r][Len(trained[r])].kind = "sql"
\* the joins an item of the corpus uses (an example) or states (documentation)
ItemJoins(item) ==
    IF item.kind = "documentation" THEN DocJoins
    ELSE IF item.kind = "sql" /\ item.content[1] = "example"
         THEN example_queries[item.content[2]].joins
    ELSE {}

\* C12: when a rebuild has trained its last example, every join (the two
\* tables and the join condition) used by the sql of an example it trained
\* is stated by a documentation entry it trained.
C12_JoinsDocumented ==
    \A r \in Req :
        (handler[r] = "train" /\ pc[r] = "t_ex" /\ todo[r] = <<>>) =>
            \A i \in 1..Len(trained[r]) :
                trained[r][i].kind = "sql" =>
                    ItemJoins(trained[r][i]) \subseteq
                        UNION { ItemJoins(trained[r][j]) :
                                j \in { k \in 1..Len(trained[r]) :
                                           trained[r][k].kind = "documentation" } }
====
